---- MODULE Spec2Model ----
(***************************************************************************)
(* A model of two Savu plugins:                                            *)
(*   - BaseLoader (savu/plugins/loaders/base_loader.py): the search of a   *)
(*     NeXus tree for application entries (get_NXapp) and NXdata groups    *)
(*     (get_NXdata), both accumulating into the instance list self.hits;   *)
(*   - MaskInitialiser (savu/plugins/segmentation/mask_initialiser.py):    *)
(*     setup, pre_process and process_frames of the interpolated seed      *)
(*     mask.                                                               *)
(* Spec      : calls on one BaseLoader instance.                           *)
(* MaskSpec  : the MaskInitialiser life cycle, process_frames atomic.      *)
(* ConcSpec  : two process_frames invocations interleaved statement by     *)
(*             statement on one MaskInitialiser instance.                  *)
(***************************************************************************)
EXTENDS Integers, Sequences, FiniteSets, TLC

VARIABLES
    \* ---- BaseLoader ----
    tree,         \* the NeXus file: node id -> [attrs, datasets]
    hits,         \* self.hits
    application,  \* self.application
    nxdata,       \* self.nxdata (never assigned by the class)
    calls,        \* the calls made so far, each with the object it returned
                  \* and the value of that object at the return
    \* ---- MaskInitialiser ----
    parameters,   \* self.parameters
    dataset,      \* the input dataset: [nframes, shape]
    setup_log,    \* the framework calls made by setup(), in order
    attrs,        \* the attributes pre_process / process_frames assign
    fixed,        \* attrs as pre_process left them (history variable)
    result,       \* the last process_frames invocation: [idx, ready, stale, call],
                  \* ready telling whether pre_process had completed before it,
                  \* stale whether an earlier invocation had changed self.d_step
    \* ---- two concurrent process_frames invocations ----
    threads       \* thread id -> [pc, idx, result] of its invocation

loaderVars == <<tree, hits, application, nxdata, calls>>
maskVars == <<parameters, dataset, setup_log, attrs, fixed, result>>
vars == <<tree, hits, application, nxdata, calls,
          parameters, dataset, setup_log, attrs, fixed, result, threads>>

\* Number of get_NXapp / get_NXdata calls followed on one instance.
MaxCalls == 2

Unset == "unset"

(***************************************************************************)
(* The NeXus tree.  Groups are numbered in the order h5py's visititems     *)
(* reaches them (pre-order, names ascending); the root "/" is the empty    *)
(* path and is never passed to the callback.  A group has an attribute     *)
(* map and a map of its leaf datasets; leaf datasets carry no NX_class     *)
(* attribute, fail the first test of either callback and appear only as    *)
(* keys of their group.                                                    *)
(***************************************************************************)
Paths == << <<"entry1">>, <<"entry1", "det">>, <<"entry2">> >>

Nodes == 1..Len(Paths)

NoAttrs == [k \in {} |-> ""]

Class(c) == [k \in {"NX_class"} |-> c]

NoData == [k \in {} |-> ""]

Definition(d) == [k \in {"definition"} |-> d]

NodeKinds ==
    { [attrs |-> NoAttrs,                datasets |-> NoData],
      [attrs |-> NoAttrs,                datasets |-> Definition("NXstxm")],
      [attrs |-> Class("NXentry"),       datasets |-> Definition("NXstxm")],
      [attrs |-> Class("NXentry"),       datasets |-> Definition("NXtomo")],
      [attrs |-> Class("NXentry"),       datasets |-> NoData],
      [attrs |-> Class("NXsubentry"),    datasets |-> Definition("NXstxm")],
      [attrs |-> Class("NXcollection"),  datasets |-> Definition("NXstxm")],
      [attrs |-> Class("NXdata"),        datasets |-> [k \in {"xmap"} |-> "counts"]],
      [attrs |-> Class("NXdata"),        datasets |-> NoData] }

Applications == {"NXstxm", "NXtomo"}

Entries == { <<>>, <<"entry1">> }

DetectorLists == { <<>>, <<"det">>, <<"xmap">>, <<"xmap", "det">> }

IsPrefix(p, q) == Len(p) <= Len(q) /\ SubSeq(q, 1, Len(p)) = p

\* obj.keys() of a group: its leaf datasets and its child groups.
keys(n) ==
    DOMAIN tree[n].datasets \cup
    { Paths[m][Len(Paths[m])] : m \in { k \in Nodes :
          Len(Paths[k]) = Len(Paths[n]) + 1 /\ IsPrefix(Paths[n], Paths[k]) } }

\* str(obj.name).split('/'): "/entry1/det" gives ['', 'entry1', 'det'].
name_split(n) == { "" } \cup { Paths[n][i] : i \in 1..Len(Paths[n]) }

\* The groups visititems passes to the callback from start group `entry`,
\* in order: every proper descendant once, the start group itself never.
visititems(entry) ==
    SelectSeq([i \in Nodes |-> i],
              LAMBDA n : Len(Paths[n]) > Len(entry) /\ IsPrefix(entry, Paths[n]))

\* _visit_NXapp: whether the callback appends obj to self.hits.
_visit_NXapp(n, app) ==
    /\ "NX_class" \in DOMAIN tree[n].attrs
    /\ tree[n].attrs["NX_class"] \in {"NXentry", "NXsubentry"}
    /\ "definition" \in keys(n)
    /\ tree[n].datasets["definition"] = app

\* _visit_NXdata: whether the callback appends obj to self.hits.
_visit_NXdata(n) ==
    /\ "NX_class" \in DOMAIN tree[n].attrs
    /\ tree[n].attrs["NX_class"] \in {"NXdata"}

\* The nodes a traversal from `entry` appends, in visiting order, given the
\* set of nodes its callback accepts.
Visited(entry, accepted) ==
    SelectSeq(visititems(entry), LAMBDA n : n \in accepted)

\* One pass of the inner loop of get_NXdata for one detector name.
DetectorMatch(detector, n) == detector \in keys(n) \/ detector \in name_split(n)

RECURSIVE Rescan(_, _)
Rescan(detector_list, collected) ==
    IF detector_list = <<>> THEN <<>>
    ELSE SelectSeq(collected, LAMBDA n : DetectorMatch(Head(detector_list), n))
         \o Rescan(Tail(detector_list), collected)

\* BaseLoader.__init__
LoaderInit ==
    /\ tree \in [Nodes -> NodeKinds]
    /\ hits = <<>>
    /\ application = "None"
    /\ nxdata = Unset
    /\ calls = <<>>

\* get_NXapp starting from an emptied list.
hits_after_NXapp_Emptied(h, ltype, entry) ==
    Visited(entry, { n \in Nodes : _visit_NXapp(n, ltype) })

\* self.hits after get_NXapp(ltype, nx_file, entry) on an instance whose
\* self.hits was h: the traversal from nx_file[entry] appends to it.
hits_after_NXapp(h, ltype, entry) ==
    h \o Visited(entry, { n \in Nodes : _visit_NXapp(n, ltype) })

\* BaseLoader.get_NXapp(ltype, nx_file, entry): returns self.hits itself.
get_NXapp(ltype, entry) ==
    /\ Len(calls) < MaxCalls
    /\ application' = ltype
    /\ hits' = hits_after_NXapp(hits, ltype, entry)
    /\ calls' = Append(calls, [op |-> "get_NXapp", ltype |-> ltype, entry |-> entry,
                               detector_list |-> <<>>, before |-> Len(hits),
                               outcome |-> "returned", object |-> "self.hits",
                               value |-> hits'])
    /\ UNCHANGED <<tree, nxdata>>

\* The loop of get_NXdata over detector_list reads self.nxdata, which the
\* class assigns nowhere: its first iteration raises AttributeError.
NXdata_raises(detector_list) == detector_list # <<>> /\ nxdata = Unset

\* self.hits after get_NXdata(nx_file, detector_list) on an instance whose
\* self.hits was h: the traversal from "/" appends every NXdata group, then
\* the loop (when it does not raise) appends the matches of each detector.
hits_after_NXdata(h, detector_list) ==
    LET collected == h \o Visited(<<>>, { n \in Nodes : _visit_NXdata(n) })
    IN IF detector_list = <<>> \/ NXdata_raises(detector_list) THEN collected
       ELSE collected \o Rescan(detector_list, nxdata)

\* BaseLoader.get_NXdata(nx_file, detector_list): returns self.hits itself,
\* or raises after the traversal has already appended to self.hits.
get_NXdata(detector_list) ==
    /\ Len(calls) < MaxCalls
    /\ hits' = hits_after_NXdata(hits, detector_list)
    /\ calls' = Append(calls,
           [op |-> "get_NXdata", ltype |-> "None", entry |-> <<>>,
            detector_list |-> detector_list, before |-> Len(hits),
            outcome |-> IF NXdata_raises(detector_list)
                        THEN "AttributeError" ELSE "returned",
            object |-> IF NXdata_raises(detector_list) THEN "none" ELSE "self.hits",
            value |-> IF NXdata_raises(detector_list) THEN <<>> ELSE hits'])
    /\ UNCHANGED <<tree, application, nxdata>>

(***************************************************************************)
(* Floating point values of MaskInitialiser.  A value is finite (the exact *)
(* fraction n/d, d > 0, in lowest terms), an infinity (n is its sign) or   *)
(* not-a-number.  numpy divides by zero without raising: x/0.0 is inf for  *)
(* x > 0 and nan for x = 0.                                                *)
(* self.distance = sqrt(sq) is kept as its square sq; self.d_dist and      *)
(* self.d_step, which the code only ever forms as multiples of             *)
(* self.distance, are kept as that multiple (0 when the distance is 0).    *)
(***************************************************************************)
RECURSIVE GCD(_, _)
GCD(a, b) == IF b = 0 THEN a ELSE GCD(b, a % b)

Abs(a) == IF a < 0 THEN -a ELSE a

Sign(a) == IF a < 0 THEN -1 ELSE IF a > 0 THEN 1 ELSE 0

Fin(n, d) ==
    LET s == IF d < 0 THEN -1 ELSE 1
        g == GCD(Abs(n), Abs(d))
    IN [k |-> "fin", n |-> (s * n) \div g, d |-> (s * d) \div g]

Inf(s) == [k |-> "inf", n |-> s, d |-> 1]

NaN == [k |-> "nan", n |-> 0, d |-> 1]

\* np.sqrt((x1 - x0)**2 + (y1 - y0)**2), as the square of the distance.
SqDistance(x0, y0, x1, y1) == (x1 - x0) * (x1 - x0) + (y1 - y0) * (y1 - y0)

\* self.distance/(steps - 1.0), as a multiple of self.distance.
StepLength(sq, steps) ==
    IF steps - 1 = 0 THEN (IF sq = 0 THEN NaN ELSE Inf(1))
    ELSE IF sq = 0 THEN Fin(0, 1)
    ELSE Fin(1, steps - 1)

\* (index_current - self.coordZ0)*self.d_dist
Scale(m, v) ==
    CASE v.k = "fin" -> Fin(m * v.n, v.d)
      [] v.k = "inf" -> IF m = 0 THEN NaN ELSE Inf(Sign(m) * v.n)
      [] OTHER -> NaN

\* self.d_step/self.distance: a pure number; 0/0 is nan.
OverDistance(v, sq) ==
    CASE v.k = "fin" -> IF sq = 0 THEN NaN ELSE v
      [] OTHER -> v

\* s*inf times the integer a.
InfTimes(s, a) == IF a = 0 THEN NaN ELSE Inf(s * Sign(a))

\* (1.0 - t)*a + t*b
Lerp(t, a, b) ==
    CASE t.k = "fin" -> Fin((t.d - t.n) * a + t.n * b, t.d)
      [] t.k = "inf" ->
            LET l == InfTimes(-t.n, a)
                r == InfTimes(t.n, b)
            IN IF l.k = "nan" \/ r.k = "nan" \/ l.n # r.n THEN NaN ELSE l
      [] OTHER -> NaN

\* np.round: to the nearest integer, a tie to the even one.
Round(v) ==
    IF v.k # "fin" THEN v
    ELSE LET q == v.n \div v.d
             r == v.n - q * v.d
         IN IF 2 * r < v.d THEN Fin(q, 1)
            ELSE IF 2 * r > v.d THEN Fin(q + 1, 1)
            ELSE IF q % 2 = 0 THEN Fin(q, 1) ELSE Fin(q + 1, 1)

(***************************************************************************)
(* Values as process_frames holds them.  get_current_frame_idx() gives an  *)
(* array of the frame indices of the invocation (one index under 'single') *)
(* and everything computed from it is an array of one element, which       *)
(* x_t[0] subscripts.  An element of the parameter list init_coordinates   *)
(* is a plain number: subscripting it raises TypeError.                    *)
(***************************************************************************)
Array(v) == [arr |-> TRUE, v |-> v]

Scalar(v) == [arr |-> FALSE, v |-> v]

(***************************************************************************)
(* Frames.  A frame is its shape, its element type and the set of its      *)
(* non-zero pixels <<row, column>> (all of value 1 here).                  *)
(***************************************************************************)
Max(a, b) == IF a > b THEN a ELSE b

Min(a, b) == IF a < b THEN a ELSE b

\* morphsnakes.circle_level_set(image_shape, center, radius):
\* int8(radius - sqrt((i - c0)^2 + (j - c1)^2) > 0); a nan or infinite
\* centre makes every comparison false.
circle_level_set(image_shape, center, radius) ==
    [shape |-> image_shape, dtype |-> "int8",
     ones |-> IF center[1].k # "fin" \/ center[2].k # "fin" \/ radius <= 0 THEN {}
              ELSE LET c0 == center[1].n
                       c1 == center[2].n
                   IN { p \in (Max(0, c0 - radius)..Min(image_shape[1] - 1, c0 + radius))
                              \X (Max(0, c1 - radius)..Min(image_shape[2] - 1, c1 + radius)) :
                          (p[1] - c0) * (p[1] - c0) + (p[2] - c1) * (p[2] - c1)
                              < radius * radius }]

\* np.zeros(shape)
zeros(shape) == [shape |-> shape, dtype |-> "float64", ones |-> {}]

\* np.uint8(array): the values 0 and 1 are kept, the element type changes.
uint8(a) == [a EXCEPT !.dtype = "uint8"]

(***************************************************************************)
(* MaskInitialiser.                                                        *)
(***************************************************************************)
\* Largest x and y coordinate, largest z coordinate, largest radius and the
\* side of the square frames of the enumerated parameter settings.
MaxXY == 2

MaxZ == 3

MaxR == 2

Side == 4

\* The documented default of init_coordinates and circle_radius, and the
\* worked scenario (10,10,0) -> (20,20,10), radius 5, on 64 x 64 frames.
DefaultParameters ==
    [init_coordinates |-> <<10, 10, 0, 20, 20, 20>>, circle_radius |-> 5]

ScenarioParameters ==
    [init_coordinates |-> <<10, 10, 0, 20, 20, 10>>, circle_radius |-> 5]

\* A parameter list one coordinate short.
ShortParameters ==
    [init_coordinates |-> <<10, 10, 0, 20, 20>>, circle_radius |-> 5]

Settings ==
    { [parameters |-> [init_coordinates |-> c, circle_radius |-> r],
       dataset |-> [nframes |-> MaxZ + 2, shape |-> <<Side, Side>>]] :
         c \in (0..MaxXY) \X (0..MaxXY) \X (0..MaxZ) \X
               (0..MaxXY) \X (0..MaxXY) \X (0..MaxZ),
         r \in 1..MaxR }
    \cup
    { [parameters |-> DefaultParameters,
       dataset |-> [nframes |-> 22, shape |-> <<64, 64>>]],
      [parameters |-> ScenarioParameters,
       dataset |-> [nframes |-> 12, shape |-> <<64, 64>>]],
      [parameters |-> ShortParameters,
       dataset |-> [nframes |-> 12, shape |-> <<64, 64>>]] }

NoAttributes == [a \in {} |-> 0]

NoResult ==
    [outcome |-> "none", branch |-> "none", t |-> NaN, x_t |-> NaN, y_t |-> NaN,
     frames |-> <<>>]

ThreadIds == {1, 2}

IdleThread == [pc |-> "idle", idx |-> -1, result |-> NoResult]

\* MaskInitialiser.__init__, with the parameters and the input dataset the
\* framework hands the plugin.
MaskInit(settings) ==
    /\ \E s \in settings : parameters = s.parameters /\ dataset = s.dataset
    /\ setup_log = <<>>
    /\ attrs = NoAttributes
    /\ fixed = NoAttributes
    /\ result = [idx |-> -1, ready |-> FALSE, stale |-> FALSE, call |-> NoResult]
    /\ threads = [i \in ThreadIds |-> IdleThread]

nInput_datasets == 1

nOutput_datasets == 1

get_max_frames == "single"

\* setup declaring the output's pattern before the output dataset exists.
setup_PatternBeforeCreate ==
    /\ setup_log = <<>>
    /\ setup_log' =
         << [on |-> "in_pData[0]", call |-> "plugin_data_setup",
             args |-> <<"VOLUME_YZ", "single">>],
            [on |-> "out_pData[0]", call |-> "plugin_data_setup",
             args |-> <<"VOLUME_YZ", "single">>],
            [on |-> "out_dataset[0]", call |-> "create_dataset",
             args |-> <<"in_dataset[0]", "uint8">>],
            [on |-> "in_dataset[0]", call |-> "get_shape", args |-> <<>>] >>
    /\ attrs' = ("full_input_shape" :> <<dataset.nframes>> \o dataset.shape) @@ attrs
    /\ UNCHANGED <<parameters, dataset, fixed, result, threads>>

\* MaskInitialiser.setup
setup ==
    /\ setup_log = <<>>
    /\ setup_log' =
         << [on |-> "in_pData[0]", call |-> "plugin_data_setup",
             args |-> <<"VOLUME_YZ", "single">>],
            [on |-> "out_dataset[0]", call |-> "create_dataset",
             args |-> <<"in_dataset[0]", "uint8">>],
            [on |-> "out_pData[0]", call |-> "plugin_data_setup",
             args |-> <<"VOLUME_YZ", "single">>],
            [on |-> "in_dataset[0]", call |-> "get_shape", args |-> <<>>] >>
    /\ attrs' = ("full_input_shape" :> <<dataset.nframes>> \o dataset.shape) @@ attrs
    /\ UNCHANGED <<parameters, dataset, fixed, result, threads>>

\* The coordinate attributes in the order pre_process assigns them.
CoordinateNames == <<"coordX0", "coordY0", "coordZ0", "coordX1", "coordY1", "coordZ1">>

\* self.init_coordinates[i] raises IndexError for a list shorter than six.
pre_process_raises(params) == Len(params.init_coordinates) < Len(CoordinateNames)

\* The attributes pre_process has assigned when it raises.
partial_attrs(params) ==
    LET c == params.init_coordinates
    IN ("init_coordinates" :> c) @@ ("circle_radius" :> params.circle_radius) @@
       [a \in { CoordinateNames[i] : i \in 1..Len(c) } |->
            c[CHOOSE i \in 1..Len(c) : CoordinateNames[i] = a]]

\* The attributes pre_process assigns, from self.parameters alone.
pre_process_attrs(params) ==
    LET c == params.init_coordinates
        steps == c[6] - c[3]
        sq == SqDistance(c[1], c[2], c[4], c[5])
        d_dist == StepLength(sq, steps)
    IN [init_coordinates |-> c, circle_radius |-> params.circle_radius,
        coordX0 |-> c[1], coordY0 |-> c[2], coordZ0 |-> c[3],
        coordX1 |-> c[4], coordY1 |-> c[5], coordZ1 |-> c[6],
        distance |-> [sqrt |-> sq], d_dist |-> d_dist, d_step |-> d_dist]

\* MaskInitialiser.pre_process: run once, after setup.  When it raises the
\* run is over: no frame is dispatched afterwards.
pre_process ==
    /\ setup_log # <<>>
    /\ fixed = NoAttributes
    /\ IF pre_process_raises(parameters)
       THEN /\ attrs' = partial_attrs(parameters) @@ attrs
            /\ fixed' = ("raised" :> "IndexError")
       ELSE /\ attrs' = pre_process_attrs(parameters) @@ attrs
            /\ fixed' = pre_process_attrs(parameters)
    /\ UNCHANGED <<parameters, dataset, setup_log, result, threads>>

\* pre_process has completed.
Ready == "d_step" \in DOMAIN fixed

\* pre_process has raised.
Failed == "raised" \in DOMAIN fixed

\* The test without its upper bound.
InRange_NoUpperBound(a, index_current) == index_current >= a.coordZ0

\* The test of process_frames on the current frame index.
InRange(a, index_current) ==
    index_current >= a.coordZ0 /\ index_current <= a.coordZ1

\* The step taken from the running self.d_step instead of self.d_dist.
NewStep_Accumulating(a, index_current) == Scale(index_current - a.coordZ0, a.d_step)

\* self.d_step = (index_current - self.coordZ0)*self.d_dist
NewStep(a, index_current) == Scale(index_current - a.coordZ0, a.d_dist)

\* x_t (c0 = coordX0, c1 = coordX1) or y_t as process_frames leaves it
\* before the mask is built.
Coordinate(t, c0, c1) ==
    IF c0 = c1 THEN Scalar(Fin(c0, 1)) ELSE Array(Round(Lerp(t, c0, c1)))

\* The rest of the in-range branch once self.d_step is written: t, x_t, y_t
\* and the mask, from self.d_step as it reads at that moment.
MaskFrom(a, d_step, shape) ==
    LET t == OverDistance(d_step, a.distance.sqrt)
        x_t == Coordinate(t, a.coordX0, a.coordX1)
        y_t == Coordinate(t, a.coordY0, a.coordY1)
    IN IF ~y_t.arr \/ ~x_t.arr
       THEN [outcome |-> "TypeError", branch |-> "mask", t |-> t,
             x_t |-> x_t.v, y_t |-> y_t.v, frames |-> <<>>]
       ELSE [outcome |-> "returned", branch |-> "mask", t |-> t,
             x_t |-> x_t.v, y_t |-> y_t.v,
             frames |-> << uint8(circle_level_set(shape,
                              <<Round(y_t.v), Round(x_t.v)>>, a.circle_radius)) >>]

\* The else branch.
Blank(shape) ==
    [outcome |-> "returned", branch |-> "zeros", t |-> NaN, x_t |-> NaN, y_t |-> NaN,
     frames |-> << uint8(zeros(shape)) >>]

\* An earlier invocation has left self.d_step different from the value
\* pre_process gave it.
Stale == Ready /\ attrs.d_step # fixed.d_step

\* process_frames returning the zero frame when the attributes are missing.
process_frames_Lenient(index_current) ==
    /\ setup_log # <<>>
    /\ ~Failed
    /\ index_current \in 0..(dataset.nframes - 1)
    /\ IF ~({"coordZ0", "coordZ1"} \subseteq DOMAIN attrs)
       THEN /\ attrs' = attrs
            /\ result' = [idx |-> index_current, ready |-> Ready, stale |-> Stale,
                          call |-> Blank(dataset.shape)]
       ELSE IF InRange(attrs, index_current)
       THEN /\ attrs' = [attrs EXCEPT !.d_step = NewStep(attrs, index_current)]
            /\ result' = [idx |-> index_current, ready |-> Ready, stale |-> Stale,
                          call |-> MaskFrom(attrs, attrs'.d_step, dataset.shape)]
       ELSE /\ attrs' = attrs
            /\ result' = [idx |-> index_current, ready |-> Ready, stale |-> Stale,
                          call |-> Blank(dataset.shape)]
    /\ UNCHANGED <<parameters, dataset, setup_log, fixed, threads>>

\* MaskInitialiser.process_frames(data) at frame index index_current, data[0]
\* having the frame shape of the dataset.  Before pre_process the first read
\* of self.coordZ0 raises AttributeError.
process_frames(index_current) ==
    /\ setup_log # <<>>
    /\ ~Failed
    /\ index_current \in 0..(dataset.nframes - 1)
    /\ IF ~({"coordZ0", "coordZ1"} \subseteq DOMAIN attrs)
       THEN /\ attrs' = attrs
            /\ result' = [idx |-> index_current, ready |-> Ready, stale |-> Stale,
                          call |-> [NoResult EXCEPT !.outcome = "AttributeError"]]
       ELSE IF InRange(attrs, index_current)
       THEN /\ attrs' = [attrs EXCEPT !.d_step = NewStep(attrs, index_current)]
            /\ result' = [idx |-> index_current, ready |-> Ready, stale |-> Stale,
                          call |-> MaskFrom(attrs, attrs'.d_step, dataset.shape)]
       ELSE /\ attrs' = attrs
            /\ result' = [idx |-> index_current, ready |-> Ready, stale |-> Stale,
                          call |-> Blank(dataset.shape)]
    /\ UNCHANGED <<parameters, dataset, setup_log, fixed, threads>>

(***************************************************************************)
(* Two invocations of process_frames on one instance, one per thread, each *)
(* statement a step: the test on the frame index, the write of             *)
(* self.d_step, and the read of self.d_step with the rest of the branch.   *)
(***************************************************************************)
Enter(th, index_current) ==
    /\ Ready
    /\ threads[th].pc = "idle"
    /\ index_current \in 0..(dataset.nframes - 1)
    /\ \A o \in ThreadIds \ {th} : threads[o].idx # index_current
    /\ threads' = [threads EXCEPT ![th] =
          IF InRange(attrs, index_current)
          THEN [pc |-> "write", idx |-> index_current, result |-> NoResult]
          ELSE [pc |-> "done", idx |-> index_current,
                result |-> Blank(dataset.shape)]]
    /\ UNCHANGED <<parameters, dataset, setup_log, attrs, fixed, result>>

WriteStep(th) ==
    /\ threads[th].pc = "write"
    /\ attrs' = [attrs EXCEPT !.d_step = NewStep(attrs, threads[th].idx)]
    /\ threads' = [threads EXCEPT ![th].pc = "read"]
    /\ UNCHANGED <<parameters, dataset, setup_log, fixed, result>>

ReadStep(th) ==
    /\ threads[th].pc = "read"
    /\ threads' = [threads EXCEPT ![th].pc = "done",
                                   ![th].result = MaskFrom(attrs, attrs.d_step, dataset.shape)]
    /\ UNCHANGED <<parameters, dataset, setup_log, attrs, fixed, result>>

(***************************************************************************)
(* Specifications.                                                         *)
(***************************************************************************)
Init == LoaderInit /\ MaskInit({[parameters |-> DefaultParameters,
                                 dataset |-> [nframes |-> 22, shape |-> <<64, 64>>]]})

Next ==
    \/ \E ltype \in Applications, entry \in Entries :
          get_NXapp(ltype, entry) /\ UNCHANGED <<maskVars, threads>>
    \/ \E detector_list \in DetectorLists :
          get_NXdata(detector_list) /\ UNCHANGED <<maskVars, threads>>

Spec == Init /\ [][Next]_vars

OneTree == tree = [n \in Nodes |-> [attrs |-> NoAttrs, datasets |-> NoData]]

MaskSpecInit ==
    /\ OneTree /\ hits = <<>> /\ application = "None" /\ nxdata = Unset /\ calls = <<>>
    /\ MaskInit(Settings)

MaskNext ==
    \/ setup /\ UNCHANGED loaderVars
    \/ pre_process /\ UNCHANGED loaderVars
    \/ \E index_current \in 0..(dataset.nframes - 1) : process_frames(index_current) /\ UNCHANGED loaderVars

MaskSpec == MaskSpecInit /\ [][MaskNext]_vars

ConcNext ==
    \/ setup /\ UNCHANGED loaderVars
    \/ pre_process /\ UNCHANGED loaderVars
    \/ \E th \in ThreadIds, index_current \in 0..(dataset.nframes - 1) :
          Enter(th, index_current) /\ UNCHANGED loaderVars
    \/ \E th \in ThreadIds : WriteStep(th) /\ UNCHANGED loaderVars
    \/ \E th \in ThreadIds : ReadStep(th) /\ UNCHANGED loaderVars

ConcSpec == MaskSpecInit /\ [][ConcNext]_vars

(***************************************************************************)
(* Properties of BaseLoader (specification Spec).                          *)
(***************************************************************************)
\* What call c returns on a freshly constructed loader (self.hits empty).
FreshValue(c) ==
    IF c.op = "get_NXapp" THEN hits_after_NXapp(<<>>, c.ltype, c.entry)
    ELSE hits_after_NXdata(<<>>, c.detector_list)

HasClass(n, classes) ==
    "NX_class" \in DOMAIN tree[n].attrs /\ tree[n].attrs["NX_class"] \in classes

IsApplicationEntry(n, ltype) ==
    /\ HasClass(n, {"NXentry", "NXsubentry"})
    /\ "definition" \in DOMAIN tree[n].datasets
    /\ tree[n].datasets["definition"] = ltype

NamesDetector(n, detector_list) ==
    \E i \in 1..Len(detector_list) :
        \/ detector_list[i] \in keys(n)
        \/ \E j \in 1..Len(Paths[n]) : Paths[n][j] = detector_list[i]

\* C1: every call on one instance returns the list a freshly constructed
\* loader returns for the same arguments, whatever calls came before it.
C1_CleanAccumulator ==
    \A i \in 1..Len(calls) :
        calls[i].outcome = "returned" => calls[i].value = FreshValue(calls[i])

\* C2: every node of a list get_NXapp(ltype, ..) returns is of class NXentry
\* or NXsubentry and has a "definition" child equal to ltype.
C2_OnlyApplicationEntries ==
    \A i \in 1..Len(calls) :
        calls[i].op = "get_NXapp" =>
            \A k \in 1..Len(calls[i].value) :
                IsApplicationEntry(calls[i].value[k], calls[i].ltype)

\* C3: every node of a list get_NXdata(.., detector_list) returns is an
\* NXdata node that has a name of detector_list as a child key or as a
\* segment of its full name.
C3_OnlyNamedData ==
    \A i \in 1..Len(calls) :
        (calls[i].op = "get_NXdata" /\ calls[i].outcome = "returned") =>
            \A k \in 1..Len(calls[i].value) :
                /\ HasClass(calls[i].value[k], {"NXdata"})
                /\ NamesDetector(calls[i].value[k], calls[i].detector_list)

\* Nothing in the tree matches call c: no application entry of its ltype
\* below its start group, no NXdata group anywhere.
NothingMatches(c) ==
    IF c.op = "get_NXapp"
    THEN \A n \in Nodes : ~IsApplicationEntry(n, c.ltype)
    ELSE \A n \in Nodes : ~HasClass(n, {"NXdata"})

\* C4: on a fresh loader a call on a tree in which nothing matches returns
\* the empty list and does not raise, for any target and any detector_list.
C4_EmptyNeverRaises ==
    (Len(calls) >= 1 /\ NothingMatches(calls[1])) =>
        (calls[1].outcome = "returned" /\ calls[1].value = <<>>)

\* C5: a list get_NXapp returns holds no node twice.
C5_NoDuplicateEntries ==
    \A i \in 1..Len(calls) :
        calls[i].op = "get_NXapp" =>
            \A k, l \in 1..Len(calls[i].value) :
                calls[i].value[k] = calls[i].value[l] => k = l

(***************************************************************************)
(* Properties of MaskInitialiser (specifications MaskSpec and ConcSpec).   *)
(***************************************************************************)
\* What process_frames returns at frame index z when no other invocation
\* runs, from the attributes as pre_process fixed them.
Alone(z) ==
    IF InRange(fixed, z) THEN MaskFrom(fixed, NewStep(fixed, z), dataset.shape)
    ELSE Blank(dataset.shape)

\* C6: under every interleaving of two invocations with different frame
\* indices, each returns the frame it returns when run alone.
C6_InterleavingIndependent ==
    \A th \in ThreadIds :
        threads[th].pc = "done" =>
            /\ threads[th].result.outcome = Alone(threads[th].idx).outcome
            /\ threads[th].result.frames = Alone(threads[th].idx).frames

\* C7: after any number of process_frames invocations every attribute
\* pre_process assigned still holds the value pre_process gave it.
C7_PreProcessAttributesFixed ==
    Ready => \A a \in DOMAIN fixed : attrs[a] = fixed[a]

\* An invocation of process_frames made after setup and pre_process.
Invoked == Ready /\ result.ready

\* C8: every invocation after setup and pre_process returns exactly
\* nOutput_datasets() frames of the shape of data[0] and of type uint8.
C8_OneFrameOfDeclaredShape ==
    Invoked =>
        /\ result.call.outcome = "returned"
        /\ Len(result.call.frames) = nOutput_datasets
        /\ \A k \in 1..Len(result.call.frames) :
              /\ result.call.frames[k].shape = dataset.shape
              /\ result.call.frames[k].dtype = "uint8"

\* C9: with z0 < z1 the centre computed at frame index z0 is (x0, y0) and
\* the centre computed at frame index z1 is (x1, y1).
C9_EndpointsExact ==
    LET c == parameters.init_coordinates
    IN (Invoked /\ c[3] < c[6]) =>
          /\ result.idx = c[3] =>
                (result.call.x_t = Fin(c[1], 1) /\ result.call.y_t = Fin(c[2], 1))
          /\ result.idx = c[6] =>
                (result.call.x_t = Fin(c[4], 1) /\ result.call.y_t = Fin(c[5], 1))

\* The frame of the given shape that is 1 inside the disc of radius r about
\* row cy, column cx and 0 elsewhere.
Disc(shape, cy, cx, r) ==
    [shape |-> shape, dtype |-> "uint8",
     ones |-> { p \in (0..(shape[1] - 1)) \X (0..(shape[2] - 1)) :
                  (p[1] - cy) * (p[1] - cy) + (p[2] - cx) * (p[2] - cx) < r * r }]

\* C10: in the scenario (10,10,0) -> (20,20,10), radius 5, frames 64 x 64:
\* at frame 5, t = 0.5 and the output is the disc about (15, 15); at frame 0
\* the disc is about (10, 10); at frame 11 the output is all zero.
C10_Scenario ==
    (Invoked /\ parameters = ScenarioParameters /\ dataset.shape = <<64, 64>>) =>
        /\ result.idx = 5 =>
              /\ result.call.t = Fin(1, 2)
              /\ result.call.frames = << Disc(<<64, 64>>, 15, 15, 5) >>
        /\ result.idx = 0 => result.call.frames = << Disc(<<64, 64>>, 10, 10, 5) >>
        /\ result.idx = 11 =>
              /\ Len(result.call.frames) = 1
              /\ result.call.frames[1].ones = {}

\* C11: with x0 == x1 every in-range invocation uses x0 as the x coordinate
\* of the centre (with y0 == y1, y0 as the y coordinate) and produces the
\* mask.
C11_ForcedCoordinate ==
    LET c == parameters.init_coordinates
    IN (Invoked /\ c[3] <= result.idx /\ result.idx <= c[6]) =>
          /\ c[1] = c[4] =>
                /\ result.call.x_t = Fin(c[1], 1)
                /\ result.call.outcome = "returned"
                /\ Len(result.call.frames) = 1
          /\ c[2] = c[5] =>
                /\ result.call.y_t = Fin(c[2], 1)
                /\ result.call.outcome = "returned"
                /\ Len(result.call.frames) = 1

\* C12: at every frame index below z0 or above z1 (every index when
\* z1 < z0) process_frames returns one all-zero uint8 frame of the shape of
\* the input frame.
C12_OutOfRangeAllZero ==
    LET c == parameters.init_coordinates
    IN (Invoked /\ (result.idx < c[3] \/ result.idx > c[6])) =>
          /\ result.call.outcome = "returned"
          /\ result.call.frames =
                << [shape |-> dataset.shape, dtype |-> "uint8", ones |-> {}] >>

\* An invocation above z1 of a non-empty range, and one with z1 < z0.
C12_Witness ==
    LET c == parameters.init_coordinates
    IN /\ Invoked
       /\ \/ (c[3] <= c[6] /\ result.idx > c[6] /\ c[1] # c[4] /\ c[2] # c[5])
          \/ (c[6] < c[3] /\ result.idx = c[6])
       /\ result.call.outcome = "returned"

\* C13: when z1 - z0 = 1, pre_process either raises or leaves a finite
\* d_dist.
C13_SinglePlaneGuarded ==
    (fixed # NoAttributes /\ ~Failed) =>
        LET c == parameters.init_coordinates
        IN c[6] - c[3] = 1 => fixed.d_dist.k = "fin"

\* C14: parameter errors surface before any frame is dispatched: either
\* pre_process fails and no invocation follows it, or no invocation made
\* after pre_process raises.
C14_ErrorsBeforeDispatch ==
    /\ Failed => ~result.ready
    /\ Invoked => result.call.outcome \notin {"TypeError", "AttributeError"}

\* The positions in the log of setup of the calls of `call` on `on`.
SetupCalls(on, call) ==
    { i \in 1..Len(setup_log) : setup_log[i].on = on /\ setup_log[i].call = call }

\* C15: setup calls plugin_data_setup once on the input and once on the
\* output plugin dataset, both with 'VOLUME_YZ' and the granularity
\* get_max_frames() returns; the output dataset is created from the input
\* dataset with dtype uint8 before the output's plugin_data_setup, and
\* get_shape() of the input follows the input's plugin_data_setup.
C15_SetupOrder ==
    setup_log # <<>> =>
        /\ Cardinality(SetupCalls("in_pData[0]", "plugin_data_setup")) = 1
        /\ Cardinality(SetupCalls("out_pData[0]", "plugin_data_setup")) = 1
        /\ \A i \in 1..Len(setup_log) :
              setup_log[i].call = "plugin_data_setup" =>
                  setup_log[i].args = <<"VOLUME_YZ", get_max_frames>>
        /\ Cardinality(SetupCalls("out_dataset[0]", "create_dataset")) = 1
        /\ \A i \in SetupCalls("out_dataset[0]", "create_dataset") :
              /\ setup_log[i].args = <<"in_dataset[0]", "uint8">>
              /\ \A j \in SetupCalls("out_pData[0]", "plugin_data_setup") : i < j
        /\ SetupCalls("in_dataset[0]", "get_shape") # {}
        /\ \A i \in SetupCalls("in_dataset[0]", "get_shape") :
              \A j \in SetupCalls("in_pData[0]", "plugin_data_setup") : j < i

\* setup has run and has stored the shape it asked for.
C15_Witness ==
    /\ Len(setup_log) = 4
    /\ "full_input_shape" \in DOMAIN attrs
    /\ attrs.full_input_shape = <<dataset.nframes>> \o dataset.shape

\* C16: in sequential use the frame returned for a frame index is the one
\* returned when that invocation is the only one, whatever invocations
\* came before it.
C16_PureMapping ==
    Invoked =>
        /\ result.call.outcome = Alone(result.idx).outcome
        /\ result.call.frames = Alone(result.idx).frames

\* An in-range invocation that returned a mask after an earlier invocation
\* had changed self.d_step.
C16_Witness ==
    /\ Invoked
    /\ result.stale
    /\ result.call.outcome = "returned"
    /\ result.call.branch = "mask"
    /\ result.call.frames[1].ones # {}

\* C17: with z0 < z1 and z0 <= z <= z1 the interpolation parameter t lies
\* in [0, 1].
C17_ParameterInUnitInterval ==
    LET c == parameters.init_coordinates
    IN (Invoked /\ c[3] < c[6] /\ c[3] <= result.idx /\ result.idx <= c[6]) =>
          /\ result.call.t.k = "fin"
          /\ 0 <= result.call.t.n
          /\ result.call.t.n <= result.call.t.d

\* The number of times node n occurs in the list s.
Occurrences(n, s) == Cardinality({ k \in 1..Len(s) : s[k] = n })

\* The number of entries of detector_list that node n matches.
NamesMatched(n, detector_list) ==
    Cardinality({ i \in 1..Len(detector_list) :
                    \/ detector_list[i] \in keys(n)
                    \/ \E j \in 1..Len(Paths[n]) : Paths[n][j] = detector_list[i] })

\* C18: on a fresh loader get_NXdata completes, and an NXdata node that
\* matches k of the requested names occurs 1 + k times in the returned list
\* (no other node occurs).
C18_OnePlusMatches ==
    (Len(calls) >= 1 /\ calls[1].op = "get_NXdata") =>
        /\ calls[1].outcome = "returned"
        /\ \A n \in Nodes :
              Occurrences(n, calls[1].value) =
                 IF HasClass(n, {"NXdata"})
                 THEN 1 + NamesMatched(n, calls[1].detector_list)
                 ELSE 0

\* C19: self.hits is only appended to: the list a call returns has the list
\* every earlier call returned as a prefix, and a list returned earlier,
\* being self.hits itself, now holds what later calls appended.
C19_AppendOnly ==
    \A j \in 1..Len(calls) :
        calls[j].outcome = "returned" =>
            /\ calls[j].object = "self.hits"
            /\ IsPrefix(calls[j].value, hits)
            /\ \A i \in 1..(j - 1) :
                  calls[i].outcome = "returned" =>
                      IsPrefix(calls[i].value, calls[j].value)

\* Two calls returned and the second appended to what the first returned.
C19_Witness ==
    /\ Len(calls) >= 2
    /\ calls[1].outcome = "returned" /\ calls[2].outcome = "returned"
    /\ calls[1].value # <<>>
    /\ Len(calls[2].value) > Len(calls[1].value)
    /\ hits = calls[2].value

\* C20: process_frames returns a frame only when pre_process has run: an
\* invocation before it raises, and what pre_process leaves is determined
\* by self.parameters alone, whatever invocations came before it.
C20_OnlyAfterPreProcess ==
    /\ result.call.outcome = "returned" => result.ready
    /\ (result.call.outcome # "none" /\ ~result.ready) =>
          (result.call.outcome = "AttributeError" /\ result.call.frames = <<>>)
    /\ Ready => fixed = pre_process_attrs(parameters)

\* An invocation made before pre_process raised, and pre_process then ran.
C20_Witness ==
    /\ Ready
    /\ ~result.ready
    /\ result.call.outcome = "AttributeError"

====
